---- MODULE Spec2Model ----
(***************************************************************************)
(* Model of analysis/statistics.py: the two CSV loaders, the statistics    *)
(* reporter, the symptom distribution and main.                            *)
(*                                                                         *)
(* A Python dict (insertion ordered) is a sequence of <<key, value>>       *)
(* pairs; a csv.DictReader input is a record [header, rows] whose rows are *)
(* records over the header's column names; a post text is a sequence of    *)
(* characters; a printed line is a record [label, kind, value] where kind  *)
(* says how the number was formatted ("d": integer, "2f": hundredths after *)
(* :.2f, "float": tenths of a float shown by repr).                        *)
(*                                                                         *)
(* statistics is the module that "import statistics" binds: the standard   *)
(* library's ("stdlib") when the program runs as a module of the package,  *)
(* this very file ("script") when it is run by its path, since the         *)
(* script's directory then comes first on the import path.                 *)
(***************************************************************************)
EXTENDS Integers, Sequences, FiniteSets, TLC

VARIABLES postsFile, annFile, statistics, posts, post_to_symptoms,
          post_to_all_annotations, out, pc

vars == <<postsFile, annFile, statistics, posts, post_to_symptoms,
          post_to_all_annotations, out, pc>>

(***************************************************************************)
(* Bounds of the explored inputs.                                          *)
(***************************************************************************)
MaxPostRows == 2
MaxAnnRows == 1
AggMaxAnnRows == 3

PostIds == {"p1", "p2"}
Texts == {<<>>, <<"a">>, <<"a", " ", " ", "b", " ">>}
Statuses == {"0", "1", "2"}
Labels == {"DEPRESSED_MOOD", "SPECIAL_CASE"}
AggLabels == {"DEPRESSED_MOOD", "ANHEDONIA", "SPECIAL_CASE"}

(***************************************************************************)
(* Module constants of statistics.py.                                      *)
(***************************************************************************)
BDI_DSM5_MAPPING ==
    [i \in 1..21 |->
        CASE i \in {1, 2, 10, 17} -> "DEPRESSED_MOOD"
          [] i \in {3, 5, 6, 7, 8, 14} -> "WORTHLESSNESS"
          [] i \in {4, 12, 21} -> "ANHEDONIA"
          [] i = 9 -> "SUICIDAL_THOUGHTS"
          [] i = 11 -> "PSYCHOMOTOR"
          [] i \in {13, 19} -> "COGNITIVE_ISSUES"
          [] i \in {15, 20} -> "FATIGUE"
          [] i = 16 -> "SLEEP_ISSUES"
          [] i = 18 -> "APPETITE_CHANGE"]

DSM5_SYMPTOM_NAMES == {BDI_DSM5_MAPPING[i] : i \in DOMAIN BDI_DSM5_MAPPING}

(***************************************************************************)
(* Python dict and defaultdict.                                            *)
(***************************************************************************)
Keys(d) == {d[i][1] : i \in DOMAIN d}

KeyList(d) == [i \in DOMAIN d |-> d[i][1]]

Values(d) == [i \in DOMAIN d |-> d[i][2]]

Index(d, k) == CHOOSE i \in DOMAIN d : d[i][1] = k

Get(d, k) == d[Index(d, k)][2]

\* d[k] = v: an existing key keeps its position, a new key goes last.
Put(d, k, v) ==
    IF k \in Keys(d) THEN [d EXCEPT ![Index(d, k)] = <<k, v>>]
    ELSE Append(d, <<k, v>>)

\* defaultdict.__getitem__: a missing key is inserted with the default.
Touch(d, k, default) == IF k \in Keys(d) THEN d ELSE Append(d, <<k, default>>)

RECURSIVE TouchAll(_, _, _)
TouchAll(d, ks, default) ==
    IF ks = <<>> THEN d
    ELSE TouchAll(Touch(d, Head(ks), default), Tail(ks), default)

\* The value a defaultdict access yields, without the insertion.
Lookup(d, k, default) == IF k \in Keys(d) THEN Get(d, k) ELSE default

(***************************************************************************)
(* csv.DictReader inputs.                                                  *)
(***************************************************************************)
PostColumns == {"post_id", "text"}
AnnColumns == {"post_id", "DSM5_symptom", "status"}

RECURSIVE SeqsUpTo(_, _)
SeqsUpTo(S, n) ==
    IF n = 0 THEN {<<>>}
    ELSE LET shorter == SeqsUpTo(S, n - 1)
         IN  shorter \cup {Append(s, x) : s \in {t \in shorter : Len(t) = n - 1}, x \in S}

PostRows(header) ==
    IF header = PostColumns THEN {[post_id |-> p, text |-> t] : p \in PostIds, t \in Texts}
    ELSE IF header = {"post_id"} THEN {[post_id |-> p] : p \in PostIds}
    ELSE {[text |-> t] : t \in Texts}

AnnRows(header, labels) ==
    IF header = AnnColumns
    THEN {[post_id |-> p, DSM5_symptom |-> s, status |-> st] :
              p \in PostIds, s \in labels, st \in Statuses}
    ELSE IF header = {"post_id", "DSM5_symptom"}
    THEN {[post_id |-> p, DSM5_symptom |-> s] : p \in PostIds, s \in labels}
    ELSE IF header = {"post_id", "status"}
    THEN {[post_id |-> p, status |-> st] : p \in PostIds, st \in Statuses}
    ELSE {[DSM5_symptom |-> s, status |-> st] : s \in labels, st \in Statuses}

PostHeaders == {PostColumns, {"post_id"}, {"text"}}
AnnHeaders == {AnnColumns, {"post_id", "DSM5_symptom"}, {"post_id", "status"},
               {"DSM5_symptom", "status"}}

PostFiles ==
    UNION {{[header |-> h, rows |-> r] : r \in SeqsUpTo(PostRows(h), MaxPostRows)} :
              h \in PostHeaders}

AnnFiles ==
    UNION {{[header |-> h, rows |-> r] : r \in SeqsUpTo(AnnRows(h, Labels), MaxAnnRows)} :
              h \in AnnHeaders}

AggPostFile ==
    [header |-> PostColumns,
     rows |-> <<[post_id |-> "p1", text |-> <<"a", " ", " ", "b", " ">>]>>]

AggAnnFiles ==
    {[header |-> AnnColumns, rows |-> r] :
        r \in SeqsUpTo(AnnRows(AnnColumns, AggLabels), AggMaxAnnRows)}

(***************************************************************************)
(* load_full_posts                                                         *)
(***************************************************************************)
RECURSIVE PostsLoop(_, _)
PostsLoop(rows, acc) ==
    IF rows = <<>> THEN acc
    ELSE PostsLoop(Tail(rows), Put(acc, Head(rows).post_id, Head(rows).text))

\* row["post_id"] or row["text"] raises KeyError on the first row when the
\* header lacks the column; with no row the loop body never runs.
load_full_posts(file) ==
    IF file.rows # <<>> /\ ~(PostColumns \subseteq file.header)
    THEN [err |-> TRUE, posts |-> <<>>]
    ELSE [err |-> FALSE, posts |-> PostsLoop(file.rows, <<>>)]

(***************************************************************************)
(* load_annotations                                                        *)
(***************************************************************************)
\* One row handled under given tests; the three faulty variants below drop
\* the taxonomy test, drop the status test, and turn the second if into elif.
AnnotationRowWith(acc, row, confirmed, explained) ==
    LET post_id == row.post_id
        symptom == row.DSM5_symptom
        status == row.status
        s1 == IF confirmed
              THEN Put(acc.post_to_symptoms, post_id,
                       Lookup(acc.post_to_symptoms, post_id, {}) \cup {symptom})
              ELSE acc.post_to_symptoms
        a1 == IF explained
              THEN Put(acc.post_to_all_annotations, post_id,
                       Append(Lookup(acc.post_to_all_annotations, post_id, <<>>),
                              <<symptom, status>>))
              ELSE acc.post_to_all_annotations
    IN  [post_to_symptoms |-> s1, post_to_all_annotations |-> a1]

AnnotationRowAnyLabel(acc, row) ==
    AnnotationRowWith(acc, row, row.status = "1", row.status \in {"0", "1"})

AnnotationRowAnyStatus(acc, row) ==
    AnnotationRowWith(acc, row,
                      row.status = "1" /\ row.DSM5_symptom \in DSM5_SYMPTOM_NAMES, TRUE)

AnnotationRowElif(acc, row) ==
    AnnotationRowWith(acc, row,
                      row.status = "1" /\ row.DSM5_symptom \in DSM5_SYMPTOM_NAMES,
                      row.status \in {"0", "1"}
                      /\ ~(row.status = "1" /\ row.DSM5_symptom \in DSM5_SYMPTOM_NAMES))

AnnotationRow(acc, row) ==
    LET post_id == row.post_id
        symptom == row.DSM5_symptom
        status == row.status
        s1 == IF status = "1" /\ symptom \in DSM5_SYMPTOM_NAMES
              THEN Put(acc.post_to_symptoms, post_id,
                       Lookup(acc.post_to_symptoms, post_id, {}) \cup {symptom})
              ELSE acc.post_to_symptoms
        a1 == IF status \in {"0", "1"}
              THEN Put(acc.post_to_all_annotations, post_id,
                       Append(Lookup(acc.post_to_all_annotations, post_id, <<>>),
                              <<symptom, status>>))
              ELSE acc.post_to_all_annotations
    IN  [post_to_symptoms |-> s1, post_to_all_annotations |-> a1]

RECURSIVE AnnotationsLoop(_, _)
AnnotationsLoop(rows, acc) ==
    IF rows = <<>> THEN acc
    ELSE AnnotationsLoop(Tail(rows), AnnotationRow(acc, Head(rows)))

load_annotations(file) ==
    IF file.rows # <<>> /\ ~(AnnColumns \subseteq file.header)
    THEN [err |-> TRUE, post_to_symptoms |-> <<>>, post_to_all_annotations |-> <<>>]
    ELSE LET r == AnnotationsLoop(file.rows,
                      [post_to_symptoms |-> <<>>, post_to_all_annotations |-> <<>>])
         IN  [err |-> FALSE,
              post_to_symptoms |-> r.post_to_symptoms,
              post_to_all_annotations |-> r.post_to_all_annotations]

(***************************************************************************)
(* Arithmetic and formatting used by print_statistics.                     *)
(***************************************************************************)
RECURSIVE SumSeq(_)
SumSeq(s) == IF s = <<>> THEN 0 ELSE Head(s) + SumSeq(Tail(s))

\* len(text.split()): the number of maximal runs of non-whitespace.
WordCount(text) ==
    Cardinality({i \in DOMAIN text :
                    text[i] # " " /\ (i = 1 \/ text[i - 1] = " ")})

RECURSIVE Insert(_, _)
Insert(x, s) ==
    IF s = <<>> THEN <<x>>
    ELSE IF x <= Head(s) THEN <<x>> \o s
    ELSE <<Head(s)>> \o Insert(x, Tail(s))

RECURSIVE Sorted(_)
Sorted(s) == IF s = <<>> THEN <<>> ELSE Insert(Head(s), Sorted(Tail(s)))

Min(s) == Sorted(s)[1]

Max(s) == Sorted(s)[Len(s)]

\* f"{num / den:.2f}" in hundredths. num / den has a denominator below 8 in
\* every explored input, so it never sits on a rounding tie.
Fmt2f(num, den) == (200 * num + den) \div (2 * den)

IntValue(v) == [kind |-> "d", value |-> v]

\* statistics.median: the middle element (an int) of an odd sample, the mean
\* of the two middle elements (a float, shown as x.0 or x.5) of an even one.
median(data) ==
    LET n == Len(data)
        s == Sorted(data)
    IN  IF n % 2 = 1 THEN IntValue(s[(n + 1) \div 2])
        ELSE [kind |-> "float", value |-> 5 * (s[n \div 2] + s[n \div 2 + 1])]

\* f"{statistics.stdev(data):.2f}" in hundredths: the sample variance is
\* A / B with A = n * sum(x^2) - sum(x)^2 and B = n * (n - 1).
stdev2f(data) ==
    LET n == Len(data)
        sx == SumSeq(data)
        sxx == SumSeq([i \in DOMAIN data |-> data[i] * data[i]])
        A == n * sxx - sx * sx
        B == n * (n - 1)
    IN  CHOOSE k \in 0..(100 * (Max(data) - Min(data)) + 1) :
            /\ k = 0 \/ (2 * k - 1) * (2 * k - 1) * B <= 40000 * A
            /\ 40000 * A < (2 * k + 1) * (2 * k + 1) * B

Line(label, kind, value) == [label |-> label, kind |-> kind, value |-> value]

(***************************************************************************)
(* print_statistics                                                        *)
(***************************************************************************)
\* Faulty variant: only identifiers that have an entry are counted.
n_of_hard_negativesPresentOnly(post_ids, symptoms) ==
    Cardinality({i \in DOMAIN post_ids :
                    post_ids[i] \in Keys(symptoms) /\ Get(symptoms, post_ids[i]) = {}})

\* sum(1 for pid in post_ids if not post_to_symptoms[pid]): a missing key
\* yields the default, the empty set.
n_of_hard_negatives(post_ids, symptoms) ==
    Cardinality({i \in DOMAIN post_ids : Lookup(symptoms, post_ids[i], {}) = {}})

\* posts[pid] raises KeyError on a missing key, sum(post_lengths) /
\* n_of_posts raises ZeroDivisionError on an empty list, and
\* statistics.median raises AttributeError when statistics is this file.
StatisticsRaises(post_ids, postmap) ==
    \/ \E i \in DOMAIN post_ids : post_ids[i] \notin Keys(postmap)
    \/ Len(post_ids) = 0
    \/ statistics = "script"

CountLines(n_of_posts, n_of_explanations, symptoms_total, hard_negatives) ==
    <<Line("Total number of posts", "d", n_of_posts),
      Line("Total number of explanations (all status)", "d", n_of_explanations),
      Line("Avg. number of explanations per post", "2f",
           IF n_of_posts # 0 THEN Fmt2f(n_of_explanations, n_of_posts) ELSE 0),
      Line("Avg. number of symptoms per post (status=1 only)", "2f",
           IF n_of_posts # 0 THEN Fmt2f(symptoms_total, n_of_posts) ELSE 0),
      Line("Number of hard negatives", "d", hard_negatives)>>

LengthLines(n_of_posts, post_lengths) ==
    <<Line("Avg. length of post (in words)", "2f",
           Fmt2f(SumSeq(post_lengths), n_of_posts)),
      Line("Median length of post (in words)", median(post_lengths).kind,
           median(post_lengths).value),
      Line("Std. dev. of post length (in words)", "2f",
           IF n_of_posts > 1 THEN stdev2f(post_lengths) ELSE 0),
      Line("Min. length of post (in words)", "d", Min(post_lengths)),
      Line("Max. length of post (in words)", "d", Max(post_lengths))>>

\* Faulty variants: zeros printed instead of failing, and the count lines
\* printed before the length statistics are computed.
EmittedPlaceholders(raises, countLines, lengthLines) ==
    IF raises
    THEN [i \in 1..10 |-> Line("metric", "d", 0)]
    ELSE countLines \o lengthLines

EmittedCountsFirst(raises, countLines, lengthLines) ==
    IF raises THEN countLines ELSE countLines \o lengthLines

\* Every print of the function follows every computation, so a call that
\* raises has printed nothing.
Emitted(raises, countLines, lengthLines) ==
    IF raises THEN <<>> ELSE countLines \o lengthLines

\* The result carries the two defaultdicts as the call leaves them: every
\* post_to_all_annotations[pid] and post_to_symptoms[pid] on a missing key
\* inserts it.
print_statistics(post_ids, postmap, symptoms, annotations) ==
    LET n_of_posts == Len(post_ids)
        annotations1 == TouchAll(annotations, post_ids, <<>>)
        n_of_explanations ==
            SumSeq([i \in DOMAIN post_ids |-> Len(Get(annotations1, post_ids[i]))])
        hard_negatives == n_of_hard_negatives(post_ids, symptoms)
        symptoms1 == TouchAll(symptoms, post_ids, {})
        post_lengths == [i \in DOMAIN post_ids |-> WordCount(Get(postmap, post_ids[i]))]
        symptoms_total ==
            SumSeq([i \in DOMAIN post_ids |-> Cardinality(Get(symptoms1, post_ids[i]))])
        raises == StatisticsRaises(post_ids, postmap)
    IN  [err |-> raises,
         lines |-> Emitted(raises,
                           CountLines(n_of_posts, n_of_explanations, symptoms_total,
                                      hard_negatives),
                           LengthLines(n_of_posts, post_lengths)),
         post_to_symptoms |-> symptoms1,
         post_to_all_annotations |-> annotations1]

(***************************************************************************)
(* print_symptom_distribution                                              *)
(***************************************************************************)
\* The orders in which iterating a set can yield its elements.
Perms(S) ==
    {f \in [1..Cardinality(S) -> S] : \A i, j \in DOMAIN f : f[i] = f[j] => i = j}

\* One iteration order for each set of the dict, in the dict's order.
IterationOrders(sets) ==
    {f \in [DOMAIN sets -> UNION {Perms(sets[i]) : i \in DOMAIN sets}] :
        \A i \in DOMAIN sets : f[i] \in Perms(sets[i])}

RECURSIVE Count(_, _, _)
Count(orders, i, counter) ==
    IF i > Len(orders) THEN counter
    ELSE LET RECURSIVE Inner(_, _)
             Inner(j, c) ==
                 IF j > Len(orders[i]) THEN c
                 ELSE Inner(j + 1, Put(c, orders[i][j], Lookup(c, orders[i][j], 0) + 1))
         IN  Count(orders, i + 1, Inner(1, counter))

\* Counter.most_common(): sorted by count, largest first; the sort is stable,
\* so equal counts keep the counter's insertion order.
RECURSIVE InsertByCount(_, _)
InsertByCount(item, s) ==
    IF s = <<>> THEN <<item>>
    ELSE IF Head(s)[2] >= item[2] THEN <<Head(s)>> \o InsertByCount(item, Tail(s))
    ELSE <<item>> \o s

\* Faulty variant: the counter in insertion order, unsorted.
most_commonUnsorted(counter) == counter

RECURSIVE most_common(_)
most_common(counter) ==
    IF counter = <<>> THEN <<>>
    ELSE InsertByCount(counter[Len(counter)],
                       most_common(SubSeq(counter, 1, Len(counter) - 1)))

DistributionLines(ranking) ==
    <<Line("Posts per symptom (status=1 only):", "text", 0)>>
    \o [i \in DOMAIN ranking |-> Line(ranking[i][1], "d", ranking[i][2])]

\* Every output the call can print: one for each way the sets iterate.
print_symptom_distribution(symptoms) ==
    {DistributionLines(most_common(Count(o, 1, <<>>))) :
        o \in IterationOrders(Values(symptoms))}

(***************************************************************************)
(* main                                                                    *)
(***************************************************************************)
Fresh ==
    /\ posts = <<>>
    /\ post_to_symptoms = <<>>
    /\ post_to_all_annotations = <<>>
    /\ out = <<>>
    /\ pc = "load_full_posts"

Init ==
    /\ postsFile \in PostFiles
    /\ annFile \in AnnFiles
    /\ statistics \in {"stdlib", "script"}
    /\ Fresh

InitAgg ==
    /\ postsFile = AggPostFile
    /\ annFile \in AggAnnFiles
    /\ statistics = "stdlib"
    /\ Fresh

LoadFullPosts ==
    /\ pc = "load_full_posts"
    /\ LET r == load_full_posts(postsFile)
       IN  /\ posts' = r.posts
           /\ pc' = IF r.err THEN "error" ELSE "load_annotations"
    /\ UNCHANGED <<postsFile, annFile, statistics, post_to_symptoms,
                   post_to_all_annotations, out>>

LoadAnnotations ==
    /\ pc = "load_annotations"
    /\ LET r == load_annotations(annFile)
       IN  /\ post_to_symptoms' = r.post_to_symptoms
           /\ post_to_all_annotations' = r.post_to_all_annotations
           /\ pc' = IF r.err THEN "error" ELSE "print_statistics"
    /\ UNCHANGED <<postsFile, annFile, statistics, posts, out>>

PrintStatistics ==
    /\ pc = "print_statistics"
    /\ LET all_post_ids == KeyList(posts)
           r == print_statistics(all_post_ids, posts, post_to_symptoms,
                                 post_to_all_annotations)
       IN  /\ post_to_symptoms' = r.post_to_symptoms
           /\ post_to_all_annotations' = r.post_to_all_annotations
           /\ out' = out \o r.lines
           /\ pc' = IF r.err THEN "error" ELSE "print"
    /\ UNCHANGED <<postsFile, annFile, statistics, posts>>

PrintBlank ==
    /\ pc = "print"
    /\ out' = Append(out, Line("", "text", 0))
    /\ pc' = "print_symptom_distribution"
    /\ UNCHANGED <<postsFile, annFile, statistics, posts, post_to_symptoms,
                   post_to_all_annotations>>

PrintSymptomDistribution ==
    /\ pc = "print_symptom_distribution"
    /\ \E lines \in print_symptom_distribution(post_to_symptoms) :
           out' = out \o lines
    /\ pc' = "done"
    /\ UNCHANGED <<postsFile, annFile, statistics, posts, post_to_symptoms,
                   post_to_all_annotations>>

Next ==
    \/ LoadFullPosts
    \/ LoadAnnotations
    \/ PrintStatistics
    \/ PrintBlank
    \/ PrintSymptomDistribution

Spec == Init /\ [][Next]_vars

SpecAgg == InitAgg /\ [][Next]_vars

(***************************************************************************)
(* Vocabulary of the properties.                                           *)
(***************************************************************************)
CanonicalCategories ==
    {"DEPRESSED_MOOD", "WORTHLESSNESS", "ANHEDONIA", "SUICIDAL_THOUGHTS",
     "PSYCHOMOTOR", "COGNITIVE_ISSUES", "FATIGUE", "SLEEP_ISSUES", "APPETITE_CHANGE"}

MetricLabels ==
    <<"Total number of posts",
      "Total number of explanations (all status)",
      "Avg. number of explanations per post",
      "Avg. number of symptoms per post (status=1 only)",
      "Number of hard negatives",
      "Avg. length of post (in words)",
      "Median length of post (in words)",
      "Std. dev. of post length (in words)",
      "Min. length of post (in words)",
      "Max. length of post (in words)">>

\* load_annotations has returned to main.
Aggregated == pc \in {"print_statistics", "print", "print_symptom_distribution", "done"}

\* print_statistics has returned to main.
Reported == pc \in {"print", "print_symptom_distribution", "done"}

AnnRowIndexes == DOMAIN annFile.rows

RowsOf(p) == {i \in AnnRowIndexes : annFile.rows[i].post_id = p}

ConfirmedOf(p) == Lookup(post_to_symptoms, p, {})

ExplanationsOf(p) == Lookup(post_to_all_annotations, p, <<>>)

NoDuplicateKey(d) == \A i, j \in DOMAIN d : d[i][1] = d[j][1] => i = j

\* The distribution block of a finished report: the lines after its header.
DistributionOf(report) == SubSeq(report, Len(MetricLabels) + 3, Len(report))

RECURSIVE Explained(_, _)
Explained(rows, p) ==
    IF rows = <<>> THEN <<>>
    ELSE LET r == Head(rows)
         IN  (IF r.post_id = p /\ (r.status = "0" \/ r.status = "1")
              THEN <<<<r.DSM5_symptom, r.status>>>> ELSE <<>>)
             \o Explained(Tail(rows), p)

Without(rows, i) == SubSeq(rows, 1, i - 1) \o SubSeq(rows, i + 1, Len(rows))

(***************************************************************************)
(* C1. After load_annotations, the confirmed-symptom set of every post is  *)
(* exactly the set of labels s with a row (p, s, "1") and s one of the 9   *)
(* canonical categories; each post is one key of the grouping, so repeated *)
(* rows add nothing, and rows of any other status never add to it.         *)
(***************************************************************************)
C1_ConfirmedSetExact ==
    Aggregated =>
        /\ NoDuplicateKey(post_to_symptoms)
        /\ \A p \in PostIds :
               ConfirmedOf(p) =
                   {annFile.rows[i].DSM5_symptom :
                       i \in {j \in RowsOf(p) :
                                 /\ annFile.rows[j].status = "1"
                                 /\ annFile.rows[j].DSM5_symptom \in CanonicalCategories}}

\* A confirmed row given twice, and a row of the same post that is not
\* confirmed (other status, or a label outside the taxonomy).
C1_Witness ==
    /\ Aggregated
    /\ \E i, j, k \in AnnRowIndexes :
           /\ i < j
           /\ annFile.rows[i] = annFile.rows[j]
           /\ annFile.rows[i].status = "1"
           /\ annFile.rows[i].DSM5_symptom \in CanonicalCategories
           /\ annFile.rows[k].post_id = annFile.rows[i].post_id
           /\ annFile.rows[k].DSM5_symptom # annFile.rows[i].DSM5_symptom
           /\ ConfirmedOf(annFile.rows[i].post_id) = {annFile.rows[i].DSM5_symptom}

(***************************************************************************)
(* C2. After load_annotations, the explanation list of every post is the   *)
(* subsequence, in input order and with duplicates, of the (symptom,       *)
(* status) pairs of its rows of status "0" or "1", canonical or not; and   *)
(* dropping a row of any other status from the input changes neither       *)
(* grouping that load_annotations returns.                                 *)
(***************************************************************************)
C2_ExplanationListExact ==
    /\ Aggregated =>
           /\ NoDuplicateKey(post_to_all_annotations)
           /\ \A p \in PostIds : ExplanationsOf(p) = Explained(annFile.rows, p)
    /\ pc = "print_statistics" =>
           \A i \in AnnRowIndexes :
               annFile.rows[i].status \notin {"0", "1"} =>
                   LET r == load_annotations([annFile EXCEPT !.rows = Without(@, i)])
                   IN  /\ r.post_to_symptoms = post_to_symptoms
                       /\ r.post_to_all_annotations = post_to_all_annotations

\* A post with a status "2" row between a non-canonical and a repeated row.
C2_Witness ==
    /\ pc = "print_statistics"
    /\ \E p \in PostIds :
           /\ Len(ExplanationsOf(p)) = 2
           /\ \E i \in RowsOf(p) : annFile.rows[i].status = "2"
           /\ \E i \in RowsOf(p) :
                  /\ annFile.rows[i].status = "1"
                  /\ annFile.rows[i].DSM5_symptom \notin CanonicalCategories

(***************************************************************************)
(* C3. In the printed symptom distribution, every line is a canonical      *)
(* category with the number of distinct posts whose confirmed-symptom set  *)
(* contains it, exactly the categories with a count of at least 1 are      *)
(* listed (once each), and the counts are in non-increasing order.         *)
(***************************************************************************)
C3_DistributionCounts ==
    pc = "done" =>
        LET D == DistributionOf(out)
            Coverage(c) == Cardinality({p \in Keys(post_to_symptoms) : c \in ConfirmedOf(p)})
        IN  /\ \A i \in DOMAIN D :
                   /\ D[i].label \in CanonicalCategories
                   /\ D[i].value = Coverage(D[i].label)
                   /\ D[i].value >= 1
            /\ \A c \in CanonicalCategories :
                   Coverage(c) >= 1 => \E i \in DOMAIN D : D[i].label = c
            /\ \A i, j \in DOMAIN D : D[i].label = D[j].label => i = j
            /\ \A i, j \in DOMAIN D : i < j => D[i].value >= D[j].value

\* Two categories, one covering two posts and one covering a single post.
C3_Witness ==
    /\ pc = "done"
    /\ Len(DistributionOf(out)) = 2
    /\ DistributionOf(out)[1].value = 2
    /\ DistributionOf(out)[2].value = 1

(***************************************************************************)
(* C4. The printed hard-negative count is the number of identifiers of the *)
(* report list whose confirmed-symptom set is empty, identifiers with no   *)
(* entry in the grouping included; hard negatives plus posts with at least *)
(* one confirmed symptom make the post count.                              *)
(***************************************************************************)
C4_HardNegatives ==
    Reported =>
        LET post_ids == KeyList(posts)
            empty == {i \in DOMAIN post_ids :
                         \A j \in RowsOf(post_ids[i]) :
                             ~(/\ annFile.rows[j].status = "1"
                               /\ annFile.rows[j].DSM5_symptom \in CanonicalCategories)}
            confirmed == {i \in DOMAIN post_ids : ConfirmedOf(post_ids[i]) # {}}
        IN  /\ out[5].label = "Number of hard negatives"
            /\ out[5].value = Cardinality(empty)
            /\ out[5].value + Cardinality(confirmed) = out[1].value

\* One post that no annotation row mentions next to one with a confirmed
\* symptom.
C4_Witness ==
    /\ Reported
    /\ out[5].value = 1
    /\ out[1].value = 2
    /\ \E p \in Keys(posts) : RowsOf(p) = {}
    /\ \E p \in Keys(posts) : ConfirmedOf(p) # {}

(***************************************************************************)
(* C5. print_statistics leaves its inputs as they were: once it has        *)
(* returned, the post map and both groupings equal, key for key, what the  *)
(* loaders returned.                                                       *)
(***************************************************************************)
C5_InputsUnchanged ==
    Reported =>
        /\ posts = load_full_posts(postsFile).posts
        /\ post_to_symptoms = load_annotations(annFile).post_to_symptoms
        /\ post_to_all_annotations = load_annotations(annFile).post_to_all_annotations

(***************************************************************************)
(* C6. With an empty report list print_statistics ends in an error and has *)
(* printed no metric line, in particular no zero for min, max or median.   *)
(***************************************************************************)
C6_EmptyCorpusFails ==
    (posts = <<>> /\ pc \notin {"load_full_posts", "load_annotations", "print_statistics"})
        => (pc = "error" /\ out = <<>>)

\* Both loaders returned, annotations were read, and print_statistics
\* raised on the empty list.
C6_Witness ==
    /\ pc = "error"
    /\ posts = <<>>
    /\ ~load_full_posts(postsFile).err
    /\ post_to_all_annotations # <<>>

(***************************************************************************)
(* C7. A loader whose input lacks a required column in its header fails,   *)
(* whatever the rows, zero rows included: main never gets past the call.   *)
(***************************************************************************)
C7_MissingColumnFails ==
    /\ ~(PostColumns \subseteq postsFile.header) => pc \in {"load_full_posts", "error"}
    /\ ~(AnnColumns \subseteq annFile.header)
           => pc \in {"load_full_posts", "load_annotations", "error"}

(***************************************************************************)
(* C8. A run of main that ends in an error has printed nothing; a run that *)
(* ends without error has printed the ten metric lines in order, then the  *)
(* blank line, then the distribution header and its category lines.        *)
(***************************************************************************)
C8_NoPartialReport ==
    /\ pc = "error" => out = <<>>
    /\ pc = "done" =>
           /\ Len(out) >= Len(MetricLabels) + 2
           /\ \A i \in DOMAIN MetricLabels : out[i].label = MetricLabels[i]
           /\ out[Len(MetricLabels) + 1] = Line("", "text", 0)
           /\ out[Len(MetricLabels) + 2].label = "Posts per symptom (status=1 only):"
           /\ \A i \in DOMAIN DistributionOf(out) :
                  DistributionOf(out)[i].label \in CanonicalCategories

\* print_statistics raised on a corpus that is not empty, after both loaders
\* had returned.
C8_Witness ==
    /\ pc = "error"
    /\ posts # <<>>
    /\ ~load_annotations(annFile).err
    /\ out = <<>>

(***************************************************************************)
(* C9. When main completes, every printed value (the ten metrics and every *)
(* per-category count) is what it would be with the annotation rows of     *)
(* unknown post identifiers removed from the input.                        *)
(***************************************************************************)
KnownRows ==
    LET Known(r) == r.post_id \in Keys(posts)
    IN  [annFile EXCEPT !.rows = SelectSeq(@, Known)]

C9_UnknownPostsIgnored ==
    pc = "done" =>
        LET a == load_annotations(KnownRows)
            r == print_statistics(KeyList(posts), posts, a.post_to_symptoms,
                                  a.post_to_all_annotations)
            D == DistributionOf(out)
        IN  /\ SubSeq(out, 1, Len(MetricLabels)) = r.lines
            /\ \E lines \in print_symptom_distribution(r.post_to_symptoms) :
                   {D[i] : i \in DOMAIN D} = {lines[i] : i \in 2..Len(lines)}

(***************************************************************************)
(* C10. After load_annotations every post has at least as many             *)
(* explanations as confirmed symptoms, and the printed explanation total   *)
(* is at least the sum of the confirmed-symptom set sizes over the report  *)
(* list.                                                                   *)
(***************************************************************************)
C10_ExplanationsCoverSymptoms ==
    /\ Aggregated =>
           \A p \in PostIds : Len(ExplanationsOf(p)) >= Cardinality(ConfirmedOf(p))
    /\ Reported =>
           out[2].value >=
               SumSeq([i \in DOMAIN posts |-> Cardinality(ConfirmedOf(posts[i][1]))])

\* A reported post with two confirmed symptoms and a third explanation.
C10_Witness ==
    /\ Reported
    /\ out[2].value = 3
    /\ \E p \in Keys(posts) : Cardinality(ConfirmedOf(p)) = 2

====
